---- MODULE Spec2Model ----
(***************************************************************************)
(* QR attendance tokens and check-in / check-out sequencing of the         *)
(* brosted-4u backend: the AttendanceToken store (models/AttendanceToken), *)
(* the token handlers and recordAttendance of                              *)
(* controllers/attendanceController.js (first revision in the file, the    *)
(* one that uses utils/dateUtils), and services/qrAutoGenerator.js.        *)
(*                                                                         *)
(* Every `await` of a handler is a point where other requests interleave,  *)
(* so a handler is a process with one action per awaited store call.       *)
(* A token document is keyed by its creation number, which stands for both *)
(* its _id / createdAt order and its random token string.                  *)
(***************************************************************************)
EXTENDS Integers, Sequences, FiniteSets, TLC

\* ---------------------------------------------------------------- bounds
\* Tokens created in a run of the issuer specification (more than KeepLast).
MaxTokens == 12
\* Tokens created in a run of the race and attendance specifications.
MaxIssued == 3
\* Last clock value.
MaxTime == 3
\* Last clock value of the retention specification.
MaxTimeRetention == 2
\* Largest configured validity window, in clock ticks.
MaxValidity == 2
\* Attendance logs created in a run.
MaxLogs == 3
\* Tokens, attendance logs and last clock value of the concurrent
\* attendance specification.
MaxIssuedConc == 2
MaxLogsConc == 2
MaxTimeConc == 1
\* Tokens, attendance logs and last clock value of the usage specification.
MaxIssuedUse == 2
MaxLogsUse == 2
MaxTimeUse == 2
\* Clock ticks per operative day.
DayLen == 2
\* Milliseconds in one clock tick.
TickMs == 90000
\* Tokens, attendance logs and last clock value of the absence-sweep
\* specification.
MaxIssuedSweep == 1
MaxLogsSweep == 2
MaxTimeSweep == 2
\* Tokens and last clock value of the getCurrent specification.
MaxIssuedCur == 3
MaxTimeCur == 3
\* Tokens, attendance logs and last clock value of the storage failure
\* specification.
MaxIssuedFail == 1
MaxLogsFail == 2
MaxTimeFail == 2
\* Tokens, attendance logs and last clock value of the log correction
\* specification; the notes an administrator may write.
MaxIssuedEdit == 1
MaxLogsEdit == 2
MaxTimeEdit == 1
NoteTexts == {"corrected"}
\* Tokens, attendance logs and last clock value of the token status
\* specification.
MaxIssuedStatus == 2
MaxLogsStatus == 1
MaxTimeStatus == 1
\* Tokens, interval timers and last clock value of the auto-generator
\* specification.
MaxIssuedAuto == 3
MaxTimers == 2
MaxTimeAuto == 1
\* Tokens and attendance logs of the double check-in specification.
MaxIssuedTap == 1
MaxLogsTap == 2
\* Tokens, attendance logs and last clock value of the lateness specification.
MaxIssuedLate == 2
MaxLogsLate == 2
MaxTimeLate == 3
\* Tokens, attendance logs and last clock value of the day-rule specification.
MaxIssuedDay == 2
MaxLogsDay == 4
MaxTimeDay == 3

\* ------------------------------------------------------ program constants
\* .limit(10) of the retention prune.
KeepLast == 10

GenProcs == {1, 2}
RecProcs == {1, 2}
Users == {1, 2}

VARIABLES
  now,              \* wall clock, new Date()
  validitySeconds,  \* process.env.QR_TOKEN_VALIDITY_SECONDS, fixed per process
  tokens,           \* AttendanceToken collection: creation number -> document
  created,          \* number of token documents ever created
  gen,              \* generateQRCode / generateQR requests
  cln,              \* cleanupExpiredQRs request
  cur,              \* getCurrentQR request
  vres,             \* last validateQRToken request and its response
  logs,             \* AttendanceLog collection, in creation order
  rec,              \* recordAttendance requests
  profile,          \* User collection: isActive, workDays, workSchedule start time
  notes,            \* Notification collection, in creation order
  swp,              \* checkAbsentUsers run
  auto              \* the QRAutoGenerator singleton and its start() calls

vars == <<now, validitySeconds, tokens, created, gen, cln, cur, vres, logs, rec,
          profile, notes, swp, auto>>

\* ------------------------------------------------------------ token model

\* AttendanceToken.create({token, validFrom, validTo, status: 'active',
\* sequenceNumber}); usageCount takes its schema default 0.
NewToken(t, validity, seq) ==
  [validFrom |-> t, validTo |-> t + validity, status |-> "active",
   sequenceNumber |-> seq, usageCount |-> 0]

SetMax(S) == CHOOSE x \in S : \A y \in S : y <= x

\* statics.getNextSequence: highest sequenceNumber in the store + 1, else 1.
NextSequence(store) ==
  IF DOMAIN store = {} THEN 1
  ELSE SetMax({store[i].sequenceNumber : i \in DOMAIN store}) + 1

\* isValid with the end of the window included (validTo >= now).
IsValid_EndInclusive(doc, t) ==
  /\ doc.status = "active"
  /\ doc.validFrom <= t
  /\ doc.validTo >= t

\* methods.isValid at clock value t.
IsValid(doc, t) ==
  /\ doc.status = "active"
  /\ doc.validFrom <= t
  /\ doc.validTo > t

\* The rotation without its {_id: {$ne: id}} filter.
ExpireOthers_NoExclusion(store, id) ==
  [i \in DOMAIN store |->
     IF store[i].status = "active"
     THEN [store[i] EXCEPT !.status = "expired"]
     ELSE store[i]]

\* The rotation with a further filter {validTo: {$lt: validTo of the new
\* token}}, which spares a token created at the same instant.
ExpireOthers_EarlierWindow(store, id) ==
  [i \in DOMAIN store |->
     IF i # id /\ store[i].status = "active" /\ store[i].validTo < store[id].validTo
     THEN [store[i] EXCEPT !.status = "expired"]
     ELSE store[i]]

\* The rotation filtering on status 'used', which no token ever has.
ExpireOthers_StatusUsed(store, id) ==
  [i \in DOMAIN store |->
     IF i # id /\ store[i].status = "used"
     THEN [store[i] EXCEPT !.status = "expired"]
     ELSE store[i]]

\* updateMany({_id: {$ne: id}, status: 'active'}, {status: 'expired'}).
ExpireOthers(store, id) ==
  [i \in DOMAIN store |->
     IF i # id /\ store[i].status = "active"
     THEN [store[i] EXCEPT !.status = "expired"]
     ELSE store[i]]

\* The cleanup filter with $gt in place of $lt.
MarkExpired_Inverted(store, t) ==
  [i \in DOMAIN store |->
     IF store[i].status = "active" /\ store[i].validTo > t
     THEN [store[i] EXCEPT !.status = "expired"]
     ELSE store[i]]

\* updateMany({status: 'active', validTo: {$lt: now}}, {status: 'expired'}).
MarkExpired(store, t) ==
  [i \in DOMAIN store |->
     IF store[i].status = "active" /\ store[i].validTo < t
     THEN [store[i] EXCEPT !.status = "expired"]
     ELSE store[i]]

\* The prune's query sorted ascending: {createdAt: 1}.
TokensToKeep_Oldest(store) ==
  {i \in DOMAIN store : Cardinality({j \in DOMAIN store : j < i}) < KeepLast}

\* find().sort({createdAt: -1}).limit(10).select('_id'), mapped to ids.
TokensToKeep(store) ==
  {i \in DOMAIN store : Cardinality({j \in DOMAIN store : j > i}) < KeepLast}

\* deleteMany({_id: {$nin: idsToKeep}}).
DeleteMany(store, idsToKeep) ==
  [i \in DOMAIN store \cap idsToKeep |-> store[i]]

\* The query of getCurrentQR without its validTo condition.
CurrentCandidates_AnyWindow(store, t) ==
  {i \in DOMAIN store : store[i].status = "active"}

\* findOne({status: 'active', validTo: {$gt: now}}).sort({createdAt: -1}):
\* the ids that match; the handler takes the newest.
CurrentCandidates(store, t) ==
  {i \in DOMAIN store : store[i].status = "active" /\ store[i].validTo > t}

\* A request record that holds no document.
NoDoc == [validFrom |-> 0, validTo |-> 0, status |-> "none",
          sequenceNumber |-> 0, usageCount |-> 0]

\* Request records between requests.
GenInit == [pc |-> "idle", sequenceNumber |-> 0, qrToken |-> 0,
            idsToKeep |-> {}, returned |-> 0]
RecInit == [pc |-> "idle", user |-> 0, type |-> "none", id |-> 0, doc |-> NoDoc,
            hasCheckInToday |-> FALSE, hasCheckOutToday |-> FALSE,
            lastCheckIn |-> 0, timestamp |-> 0, lateMinutes |-> 0,
            status |-> 0, error |-> "none", notified |-> "none"]
\* new QRAutoGenerator(): intervalId = null (0), isRunning = false. timers
\* are the interval timers of the runtime that setInterval created and
\* clearInterval has not cleared; no start() call is in flight.
AutoInit == [isRunning |-> FALSE, intervalId |-> 0, timers |-> {}, nextTimer |-> 1,
             pc |-> [p \in GenProcs |-> "idle"]]
\* The absence sweep between runs; status is what the checkAbsentUsers
\* endpoint answered for the last run.
SweepInit == [pc |-> "idle", todayStart |-> 0, todayEnd |-> 0, activeUsers |-> {},
              result |-> "none", status |-> 0]

GenIdle == \A p \in GenProcs : gen[p].pc = "idle"
ClnIdle == cln.pc = "idle"
CurIdle == cur.pc = "idle"
RecIdle == \A p \in RecProcs : rec[p].pc = "idle"
\* No request of any kind is in flight.
Idle == GenIdle /\ ClnIdle /\ CurIdle /\ RecIdle

\* Generate requests that have been accepted and have not yet created.
GenPending == Cardinality({p \in GenProcs : gen[p].pc = "create"})

\* ------------------------------------------------------------- generate
\* generateQRCode (controller) and QRAutoGenerator.generateQR run the same
\* five store calls.

\* const sequenceNumber = await AttendanceToken.getNextSequence()
GenNextSequence(p) ==
  /\ gen[p].pc = "idle"
  /\ gen' = [gen EXCEPT ![p] = [@ EXCEPT !.pc = "create",
                                        !.sequenceNumber = NextSequence(tokens)]]
  /\ UNCHANGED <<now, validitySeconds, tokens, created, cln, cur, vres, logs, rec, profile, notes, swp, auto>>

\* const qrToken = await AttendanceToken.create({...})
GenCreate(p) ==
  /\ gen[p].pc = "create"
  /\ created' = created + 1
  /\ tokens' = tokens @@ (created' :> NewToken(now, validitySeconds, gen[p].sequenceNumber))
  /\ gen' = [gen EXCEPT ![p] = [@ EXCEPT !.pc = "expire", !.qrToken = created']]
  /\ UNCHANGED <<now, validitySeconds, cln, cur, vres, logs, rec, profile, notes, swp, auto>>

\* await AttendanceToken.updateMany({_id: {$ne: qrToken._id}, status: 'active'}, ...)
GenExpireOthers(p) ==
  /\ gen[p].pc = "expire"
  /\ tokens' = ExpireOthers(tokens, gen[p].qrToken)
  /\ gen' = [gen EXCEPT ![p] = [@ EXCEPT !.pc = "find"]]
  /\ UNCHANGED <<now, validitySeconds, created, cln, cur, vres, logs, rec, profile, notes, swp, auto>>

\* const tokensToKeep = await AttendanceToken.find().sort(...).limit(10)
GenFindKeep(p) ==
  /\ gen[p].pc = "find"
  /\ gen' = [gen EXCEPT ![p] = [@ EXCEPT !.pc = "delete",
                                        !.idsToKeep = TokensToKeep(tokens)]]
  /\ UNCHANGED <<now, validitySeconds, tokens, created, cln, cur, vres, logs, rec, profile, notes, swp, auto>>

\* await AttendanceToken.deleteMany({_id: {$nin: idsToKeep}}); res.json(qrToken)
GenDeleteMany(p) ==
  /\ gen[p].pc = "delete"
  /\ tokens' = DeleteMany(tokens, gen[p].idsToKeep)
  /\ gen' = [gen EXCEPT ![p] = [@ EXCEPT !.pc = "idle", !.idsToKeep = {},
                                        !.returned = gen[p].qrToken]]
  /\ UNCHANGED <<now, validitySeconds, created, cln, cur, vres, logs, rec, profile, notes, swp, auto>>

\* -------------------------------------------------------------- cleanup
CleanupMark ==
  /\ cln.pc = "idle"
  /\ tokens' = MarkExpired(tokens, now)
  /\ cln' = [cln EXCEPT !.pc = "find"]
  /\ UNCHANGED <<now, validitySeconds, created, gen, cur, vres, logs, rec, profile, notes, swp, auto>>

CleanupFindKeep ==
  /\ cln.pc = "find"
  /\ cln' = [cln EXCEPT !.pc = "delete", !.idsToKeep = TokensToKeep(tokens)]
  /\ UNCHANGED <<now, validitySeconds, tokens, created, gen, cur, vres, logs, rec, profile, notes, swp, auto>>

CleanupDeleteMany ==
  /\ cln.pc = "delete"
  /\ tokens' = DeleteMany(tokens, cln.idsToKeep)
  /\ cln' = [cln EXCEPT !.pc = "idle", !.idsToKeep = {}]
  /\ UNCHANGED <<now, validitySeconds, created, gen, cur, vres, logs, rec, profile, notes, swp, auto>>

\* ----------------------------------------------------------- getCurrent
CurDone(code, id) == [pc |-> "idle", id |-> 0, doc |-> NoDoc, status |-> code, token |-> id]

\* findOne({status: 'active', validTo: {$gt: new Date()}}).sort({createdAt: -1})
\* and the 404 of `if (!currentQR)`.
GetCurrentFind ==
  /\ cur.pc = "idle"
  /\ LET c == CurrentCandidates(tokens, now) IN
       IF c = {}
       THEN cur' = CurDone(404, 0)
       ELSE cur' = [pc |-> "check", id |-> SetMax(c), doc |-> tokens[SetMax(c)],
                    status |-> 0, token |-> 0]
  /\ UNCHANGED <<now, validitySeconds, tokens, created, gen, cln, vres, logs, rec, profile, notes, swp, auto>>

\* if (!currentQR.isValid()) { await currentQR.expire(); 404 } else 200.
\* The loaded document keeps the fields it was read with; only the clock of
\* isValid is new. expire() saves the status path alone, and the save of a
\* document that was deleted meanwhile throws DocumentNotFoundError (500).
GetCurrentCheck ==
  /\ cur.pc = "check"
  /\ IF IsValid(cur.doc, now)
     THEN /\ cur' = CurDone(200, cur.id)
          /\ tokens' = tokens
     ELSE IF cur.id \in DOMAIN tokens
     THEN /\ tokens' = [tokens EXCEPT ![cur.id].status = "expired"]
          /\ cur' = CurDone(404, 0)
     ELSE /\ tokens' = tokens
          /\ cur' = CurDone(500, 0)
  /\ UNCHANGED <<now, validitySeconds, created, gen, cln, vres, logs, rec, profile, notes, swp, auto>>

\* -------------------------------------------------------------- validate
\* What validateQRToken answers for token string v: 404 'Invalid QR code',
\* 400 'QR code has expired or is no longer active', 200 {valid: true}.
ValidateResult(store, v, t) ==
  IF v \notin DOMAIN store THEN "NotFound"
  ELSE IF ~IsValid(store[v], t) THEN "Expired"
  ELSE "Valid"

\* A validateQRToken that expires the token it finds invalid, as getCurrentQR
\* does.
ValidateQRToken_Expires(v) ==
  /\ vres' = [token |-> v, result |-> ValidateResult(tokens, v, now)]
  /\ tokens' = IF ValidateResult(tokens, v, now) = "Expired"
                THEN [tokens EXCEPT ![v].status = "expired"]
                ELSE tokens
  /\ UNCHANGED <<now, validitySeconds, created, gen, cln, cur, logs, rec, profile, notes, swp, auto>>

\* validateQRToken: findOne({token}) and isValid(); it writes nothing.
ValidateQRToken(v) ==
  /\ vres' = [token |-> v, result |-> ValidateResult(tokens, v, now)]
  /\ UNCHANGED <<now, validitySeconds, tokens, created, gen, cln, cur, logs, rec, profile, notes, swp, auto>>

\* ------------------------------------------------------- operative day
\* dateUtils.getStartOfToday / getEndOfToday / getDateString: the clock
\* counts ticks from a Riyadh midnight, DayLen ticks to the day; the end of
\* the day is its last instant (23:59:59.999), compared with $lte.
StartOfToday(t) == (t \div DayLen) * DayLen
EndOfToday(t) == StartOfToday(t) + (DayLen - 1)
DateString(t) == t \div DayLen

\* dateUtils.getDayName: the weekday of the operative day, counted from the
\* weekday of the clock's first day.
WeekLen == 7
DayName(t) == DateString(t) % WeekLen

\* ------------------------------------------------------------------ users
\* A user document: isActive, workDays (weekdays) and the start time of
\* workSchedule[dayName], as clock ticks after midnight. NoStart stands for
\* a schedule with no startTime for the day.
NoStart == -1
Unscheduled == [isActive |-> TRUE, workDays |-> {}, startTime |-> NoStart]

\* The 1000 * 60 of the lateness rule: milliseconds in a minute.
MinuteMs == 60000

\* dateUtils.createDate(year, month, day, expectedHours, expectedMinutes, 0)
\* on getDateComponents(new Date()): today's midnight plus the start time.
ExpectedTime(t, startTime) == StartOfToday(t) + startTime

\* The lateness rounded up to the next whole minute.
LateMinutes_Ceiling(checkinTime, expectedTime) ==
  ((checkinTime - expectedTime) * TickMs + (MinuteMs - 1)) \div MinuteMs

\* Math.floor((checkinTime - expectedTime) / (1000 * 60)), on millisecond
\* timestamps.
LateMinutes(checkinTime, expectedTime) ==
  ((checkinTime - expectedTime) * TickMs) \div MinuteMs

\* user.workDays.length > 0 && user.workDays.includes(dayName) &&
\* user.workSchedule[dayName] && expectedStartTime
ScheduledToday(pr, t) ==
  /\ pr.workDays # {}
  /\ DayName(t) \in pr.workDays
  /\ pr.startTime # NoStart

\* --------------------------------------------------------- attendance log
\* AttendanceLog.create({userId, type, timestamp, method: 'qr', tokenId}); the
\* create passes no notes.
NewLog(u, ty, t, id) ==
  [userId |-> u, type |-> ty, timestamp |-> t, method |-> "qr", tokenId |-> id,
   notes |-> "none"]

LogsOf(u) == {i \in 1..Len(logs) : logs[i].userId = u}

\* The query of today's logs with $gt in place of $gte.
TodayAttendance_AfterStart(u, t) ==
  {i \in LogsOf(u) : /\ logs[i].timestamp > StartOfToday(t)
                     /\ logs[i].timestamp <= EndOfToday(t)}

\* AttendanceLog.find({userId, timestamp: {$gte: todayStart, $lte: todayEnd}})
TodayAttendance(u, t) ==
  {i \in LogsOf(u) : /\ logs[i].timestamp >= StartOfToday(t)
                     /\ logs[i].timestamp <= EndOfToday(t)}

\* AttendanceLog.find({userId, type: 'checkin'}).sort({timestamp: -1}).limit(1)
CheckIns(u) == {i \in LogsOf(u) : logs[i].type = "checkin"}
LastCheckInTime(u) == SetMax({logs[i].timestamp : i \in CheckIns(u)})

\* AttendanceLog.findOne({userId, type: 'checkout', timestamp: {$gt: ts}})
HasCheckOutAfter(u, ts) ==
  \E i \in LogsOf(u) : logs[i].type = "checkout" /\ logs[i].timestamp > ts

\* The checkout rules without `if (hasCheckOutAfterCheckIn) { if (!hasCheckInToday)`.
CheckOutRejection_NoClosedCheck(hasOutAfter, hasCheckInToday, hasCheckOutToday, lastCheckInDate, todayDate) ==
  IF hasCheckOutToday /\ lastCheckInDate = todayDate THEN "AlreadyCheckedOut"
  ELSE "none"

\* The checkout rule of the revision without night shifts: a checkout needs
\* a checkin today.
CheckOutRejection_SameDayOnly(hasOutAfter, hasCheckInToday, hasCheckOutToday, lastCheckInDate, todayDate) ==
  IF ~hasCheckInToday THEN "NoOpenSession"
  ELSE IF hasCheckOutToday THEN "AlreadyCheckedOut"
  ELSE "none"

\* The checkout rules once lastCheckIn is known: the rejection, or "none".
CheckOutRejection(hasOutAfter, hasCheckInToday, hasCheckOutToday, lastCheckInDate, todayDate) ==
  IF hasOutAfter /\ ~hasCheckInToday THEN "NoOpenSession"
  ELSE IF hasCheckOutToday /\ lastCheckInDate = todayDate THEN "AlreadyCheckedOut"
  ELSE "none"

\* The document save of a replaceOne: every path of the loaded copy written.
SaveUsage_WholeDocument(store, id, doc) ==
  [store EXCEPT ![id] = [doc EXCEPT !.usageCount = doc.usageCount + 1]]

\* methods.markAsUsed: this.usageCount += 1 on the loaded document, then
\* save(), which writes the modified path usageCount alone.
SaveUsage(store, id, doc) ==
  [store EXCEPT ![id].usageCount = doc.usageCount + 1]

RecDone(code, err) == [RecInit EXCEPT !.status = code, !.error = err]

\* The token check without the isValid() test.
TokenRejection_NoExpiry(store, v, t) ==
  IF v \notin DOMAIN store THEN "InvalidQR" ELSE "none"

\* The token check of recordAttendance: 404 'Invalid QR code', 400 'QR code
\* has expired or is no longer active', or "none" when the token passes.
TokenRejection(store, v, t) ==
  IF v \notin DOMAIN store THEN "InvalidQR"
  ELSE IF ~IsValid(store[v], t) THEN "QRExpired"
  ELSE "none"

\* ----------------------------------------------------- recordAttendance
\* if (!token || !type) 400 'Token and type are required';
\* if (!['checkin', 'checkout'].includes(type)) 400 'Type must be either ...'.
\* No store call is made.
RecBadRequest(p, hasToken, ty) ==
  /\ rec[p].pc = "idle"
  /\ ~hasToken \/ ty \notin {"checkin", "checkout"}
  /\ rec' = [rec EXCEPT ![p] =
       IF ~hasToken \/ ty = "missing" THEN RecDone(400, "FieldsRequired")
       ELSE RecDone(400, "BadType")]
  /\ UNCHANGED <<now, validitySeconds, tokens, created, gen, cln, cur, vres, logs, profile, notes, swp, auto>>

\* const qrToken = await AttendanceToken.findOne({token});
\* 404 'Invalid QR code' / 400 'QR code has expired or is no longer active'.
RecFindToken(p, u, ty, v) ==
  /\ rec[p].pc = "idle"
  /\ LET why == TokenRejection(tokens, v, now) IN
       rec' = [rec EXCEPT ![p] =
         IF why = "InvalidQR" THEN [RecDone(404, why) EXCEPT !.id = v]
         ELSE IF why = "QRExpired" THEN [RecDone(400, why) EXCEPT !.id = v]
         ELSE [RecInit EXCEPT !.pc = "today", !.user = u, !.type = ty,
                              !.id = v, !.doc = tokens[v]]]
  /\ UNCHANGED <<now, validitySeconds, tokens, created, gen, cln, cur, vres, logs, profile, notes, swp, auto>>

\* const todayAttendance = await AttendanceLog.find({... today ...});
\* 400 'You have already checked in today'.
RecFindToday(p) ==
  /\ rec[p].pc = "today"
  /\ LET today == TodayAttendance(rec[p].user, now)
         hasIn == \E i \in today : logs[i].type = "checkin"
         hasOut == \E i \in today : logs[i].type = "checkout"
     IN rec' = [rec EXCEPT ![p] =
          IF rec[p].type = "checkin"
          THEN IF hasIn THEN RecDone(400, "AlreadyCheckedIn")
               ELSE [@ EXCEPT !.pc = "create", !.hasCheckInToday = hasIn,
                              !.hasCheckOutToday = hasOut]
          ELSE [@ EXCEPT !.pc = "lastin", !.hasCheckInToday = hasIn,
                         !.hasCheckOutToday = hasOut]]
  /\ UNCHANGED <<now, validitySeconds, tokens, created, gen, cln, cur, vres, logs, profile, notes, swp, auto>>

\* const recentCheckIns = await AttendanceLog.find({userId, type: 'checkin'})...
\* 400 'You must check in before checking out' when there is none.
RecFindLastCheckIn(p) ==
  /\ rec[p].pc = "lastin"
  /\ rec' = [rec EXCEPT ![p] =
       IF CheckIns(rec[p].user) = {} THEN RecDone(400, "NoOpenSession")
       ELSE [@ EXCEPT !.pc = "after", !.lastCheckIn = LastCheckInTime(rec[p].user)]]
  /\ UNCHANGED <<now, validitySeconds, tokens, created, gen, cln, cur, vres, logs, profile, notes, swp, auto>>

\* const hasCheckOutAfterCheckIn = await AttendanceLog.findOne({...});
\* then the two checkout rejections.
RecFindCheckOutAfter(p) ==
  /\ rec[p].pc = "after"
  /\ LET why == CheckOutRejection(HasCheckOutAfter(rec[p].user, rec[p].lastCheckIn),
                                  rec[p].hasCheckInToday, rec[p].hasCheckOutToday,
                                  DateString(rec[p].lastCheckIn), DateString(now))
     IN rec' = [rec EXCEPT ![p] =
          IF why # "none" THEN RecDone(400, why) ELSE [@ EXCEPT !.pc = "create"]]
  /\ UNCHANGED <<now, validitySeconds, tokens, created, gen, cln, cur, vres, logs, profile, notes, swp, auto>>

\* The insert under a unique index on user, type and day: a second checkin
\* of the day fails with a duplicate-key error, caught as a 500.
RecCreateLog_UniquePerDay(p) ==
  /\ rec[p].pc = "create"
  /\ IF \E i \in LogsOf(rec[p].user) :
          logs[i].type = rec[p].type /\ DateString(logs[i].timestamp) = DateString(now)
     THEN /\ logs' = logs
          /\ rec' = [rec EXCEPT ![p] = RecDone(500, "DuplicateKey")]
     ELSE /\ logs' = Append(logs, NewLog(rec[p].user, rec[p].type, now, rec[p].id))
          /\ rec' = [rec EXCEPT ![p] = [@ EXCEPT !.pc = "mark", !.timestamp = now]]
  /\ UNCHANGED <<now, validitySeconds, tokens, created, gen, cln, cur, vres, profile, notes, swp, auto>>

\* const attendanceLog = await AttendanceLog.create({..., timestamp: new Date()})
RecCreateLog(p) ==
  /\ rec[p].pc = "create"
  /\ logs' = Append(logs, NewLog(rec[p].user, rec[p].type, now, rec[p].id))
  /\ rec' = [rec EXCEPT ![p] = [@ EXCEPT !.pc = "mark", !.timestamp = now]]
  /\ UNCHANGED <<now, validitySeconds, tokens, created, gen, cln, cur, vres, profile, notes, swp, auto>>

\* await qrToken.markAsUsed(), then populate. A checkout is answered 200
\* here; a checkin goes on to the lateness rule. The save of a document that
\* the prune deleted meanwhile throws DocumentNotFoundError, caught as a 500.
RecMarkAsUsed(p) ==
  /\ rec[p].pc = "mark"
  /\ IF rec[p].id \in DOMAIN tokens
     THEN /\ tokens' = SaveUsage(tokens, rec[p].id, rec[p].doc)
          /\ rec' = [rec EXCEPT ![p] =
               IF rec[p].type = "checkin" THEN [@ EXCEPT !.pc = "late"]
               ELSE RecDone(200, "none")]
     ELSE /\ tokens' = tokens
          /\ rec' = [rec EXCEPT ![p] = RecDone(500, "SaveFailed")]
  /\ UNCHANGED <<now, validitySeconds, created, gen, cln, cur, vres, logs, profile, notes, swp, auto>>

\* const user = await User.findById(req.user.id); the weekday and the
\* expected start are taken from new Date(), the check-in time from the
\* created log. A check-in that is not late is answered 200 here.
RecLateCheck(p) ==
  /\ rec[p].pc = "late"
  /\ LET pr == profile[rec[p].user]
         expectedTime == ExpectedTime(now, pr.startTime)
     IN rec' = [rec EXCEPT ![p] =
          IF ScheduledToday(pr, now) /\ rec[p].timestamp > expectedTime
          THEN [@ EXCEPT !.pc = "notify",
                         !.lateMinutes = LateMinutes(rec[p].timestamp, expectedTime)]
          ELSE RecDone(200, "none")]
  /\ UNCHANGED <<now, validitySeconds, tokens, created, gen, cln, cur, vres, logs, profile, notes, swp, auto>>

\* notifications.createNotification payload of the lateness rule.
LateNote(u, minutes, checkinTime) ==
  [type |-> "user_late", userId |-> u, lateMinutes |-> minutes, actualTime |-> checkinTime]

\* createNotification with no try / catch around its store calls: the
\* failure reaches the catch of recordAttendance.
RecNotify_Rethrows(p, delivered) ==
  /\ rec[p].pc = "notify"
  /\ notes' = IF delivered
              THEN Append(notes, LateNote(rec[p].user, rec[p].lateMinutes, rec[p].timestamp))
              ELSE notes
  /\ rec' = [rec EXCEPT ![p] =
       IF delivered THEN [RecDone(200, "none") EXCEPT !.notified = "sent"]
       ELSE [RecDone(500, "NotifyFailed") EXCEPT !.notified = "failed"]]
  /\ UNCHANGED <<now, validitySeconds, tokens, created, gen, cln, cur, vres, logs, profile, swp, auto>>

\* await createNotification({type: 'user_late', ...}); 200. delivered is
\* FALSE when there is no active admin or when User.find / insertMany throws:
\* createNotification catches the error and returns.
RecNotify(p, delivered) ==
  /\ rec[p].pc = "notify"
  /\ notes' = IF delivered
              THEN Append(notes, LateNote(rec[p].user, rec[p].lateMinutes, rec[p].timestamp))
              ELSE notes
  /\ rec' = [rec EXCEPT ![p] =
       [RecDone(200, "none") EXCEPT !.notified = IF delivered THEN "sent" ELSE "failed"]]
  /\ UNCHANGED <<now, validitySeconds, tokens, created, gen, cln, cur, vres, logs, profile, swp, auto>>

\* --------------------------------------------------------- absence sweep
\* utils/checkAbsentUsers.js, the revision that uses dateUtils.

\* const todayStart = getStartOfToday(); const todayEnd = getEndOfToday();
\* const activeUsers = await User.find({isActive: true})
SweepFindUsers ==
  /\ swp.pc = "idle"
  /\ swp' = [pc |-> "checkins", todayStart |-> StartOfToday(now),
             todayEnd |-> EndOfToday(now),
             activeUsers |-> {u \in Users : profile[u].isActive}, result |-> "none",
             status |-> 0]
  /\ UNCHANGED <<now, validitySeconds, tokens, created, gen, cln, cur, vres, logs, rec, profile, notes, auto>>

\* The users for whom the loop reaches `await createNotification({...})`:
\* workDays not empty, workDays.includes(getDayName(new Date())), and not in
\* checkedInUserIds.
AbsentUsers(activeUsers, checkedIn, t) ==
  {u \in activeUsers : /\ profile[u].workDays # {}
                       /\ DayName(t) \in profile[u].workDays
                       /\ u \notin checkedIn}

\* const todayCheckins = await AttendanceLog.find({type: 'checkin', today});
\* then the loop over activeUsers, which has no await before the call of
\* createNotification. The argument of that call reads `today.toISOString()`
\* and this revision declares no `today`: evaluating it throws a
\* ReferenceError before createNotification is entered, the catch of
\* checkAbsentUsers logs it, and the loop is over. No notification is stored.
\* The function returns normally either way and the endpoint answers 200.
SweepFindCheckins ==
  /\ swp.pc = "checkins"
  /\ LET checkedIn == {logs[i].userId : i \in
                         {k \in 1..Len(logs) : /\ logs[k].type = "checkin"
                                               /\ logs[k].timestamp >= swp.todayStart
                                               /\ logs[k].timestamp <= swp.todayEnd}}
     IN swp' = [SweepInit EXCEPT !.status = 200, !.result =
                  IF AbsentUsers(swp.activeUsers, checkedIn, now) = {} THEN "completed"
                  ELSE "ReferenceError"]
  /\ UNCHANGED <<now, validitySeconds, tokens, created, gen, cln, cur, vres, logs, rec, profile, notes, auto>>

\* -------------------------------------------------------- QRAutoGenerator
\* start(): `if (this.isRunning) return;` (a call while running changes
\* nothing), else `await this.generateQR()`, which runs to its first await,
\* getNextSequence. isRunning is not set here.
AutoStart(s) ==
  /\ ~auto.isRunning
  /\ auto.pc[s] = "idle"
  /\ gen[s].pc = "idle"
  /\ auto' = [auto EXCEPT !.pc[s] = "initial"]
  /\ gen' = [gen EXCEPT ![s] = [@ EXCEPT !.pc = "create",
                                        !.sequenceNumber = NextSequence(tokens)]]
  /\ UNCHANGED <<now, validitySeconds, tokens, created, cln, cur, vres, logs, rec, profile, notes, swp>>

\* start() after its initial generateQR() has settled:
\* this.intervalId = setInterval(...); this.isRunning = true.
AutoSetInterval(s) ==
  /\ auto.pc[s] = "initial"
  /\ gen[s].pc = "idle"
  /\ auto' = [auto EXCEPT !.pc[s] = "idle",
                          !.timers = @ \cup {auto.nextTimer},
                          !.intervalId = auto.nextTimer,
                          !.nextTimer = @ + 1,
                          !.isRunning = TRUE]
  /\ UNCHANGED <<now, validitySeconds, tokens, created, gen, cln, cur, vres, logs, rec, profile, notes, swp>>

\* stop(): `if (!this.isRunning) return;` else clearInterval(this.intervalId),
\* intervalId = null, isRunning = false.
AutoStop ==
  /\ auto.isRunning
  /\ auto' = [auto EXCEPT !.timers = @ \ {auto.intervalId},
                          !.intervalId = 0,
                          !.isRunning = FALSE]
  /\ UNCHANGED <<now, validitySeconds, tokens, created, gen, cln, cur, vres, logs, rec, profile, notes, swp>>

\* An interval timer that is not cleared fires: its callback calls
\* generateQR(), which runs to its first await.
AutoFire(p) ==
  /\ auto.timers # {}
  /\ auto.pc[p] = "idle"
  /\ gen[p].pc = "idle"
  /\ gen' = [gen EXCEPT ![p] = [@ EXCEPT !.pc = "create",
                                        !.sequenceNumber = NextSequence(tokens)]]
  /\ UNCHANGED <<now, validitySeconds, tokens, created, cln, cur, vres, logs, rec, profile, notes, swp, auto>>

\* ------------------------------------------------- updateAttendanceLog
\* An edit that also clears the token reference of the log.
EditLog_ClearsToken(log, hasTimestamp, timestamp, hasNotes, text) ==
  [log EXCEPT !.timestamp = IF hasTimestamp THEN timestamp ELSE @,
              !.notes = IF hasNotes THEN text ELSE @,
              !.method = "manual",
              !.tokenId = 0]

\* if (timestamp) log.timestamp = new Date(timestamp);
\* if (notes !== undefined) log.notes = notes; log.method = 'manual'.
EditLog(log, hasTimestamp, timestamp, hasNotes, text) ==
  [log EXCEPT !.timestamp = IF hasTimestamp THEN timestamp ELSE @,
              !.notes = IF hasNotes THEN text ELSE @,
              !.method = "manual"]

\* updateAttendanceLog: findById(id), 404 when there is no such log (k = 0 or
\* past the last log), else the three assignments and save(), which writes
\* the modified paths of that one log.
UpdateAttendanceLog(k, hasTimestamp, timestamp, hasNotes, text) ==
  /\ logs' = IF k \in 1..Len(logs)
              THEN [logs EXCEPT ![k] = EditLog(@, hasTimestamp, timestamp, hasNotes, text)]
              ELSE logs
  /\ UNCHANGED <<now, validitySeconds, tokens, created, gen, cln, cur, vres, rec, profile, notes, swp, auto>>

\* --------------------------------------------------------- storage failure
\* The awaited store call a recordAttendance request stands at throws
\* (storage unavailable): a find of the checks, AttendanceLog.create, the
\* save of markAsUsed or the populate after it ("mark"), User.findById of the
\* lateness rule ("late"). The catch of the handler answers 500; nothing is
\* undone.
RecStorageFails(p) ==
  /\ rec[p].pc \in {"today", "lastin", "after", "create", "mark", "late"}
  /\ rec' = [rec EXCEPT ![p] = RecDone(500, "StorageError")]
  /\ UNCHANGED <<now, validitySeconds, tokens, created, gen, cln, cur, vres, logs, profile, notes, swp, auto>>

\* User.find or AttendanceLog.find of checkAbsentUsers throws: the catch of
\* checkAbsentUsers logs the error and the function returns normally, so the
\* endpoint answers 200 {success: true, message: 'Absent users check
\* completed'}.
SweepStorageFails ==
  /\ swp.pc \in {"idle", "checkins"}
  /\ swp' = [SweepInit EXCEPT !.result = "StorageError", !.status = 200]
  /\ UNCHANGED <<now, validitySeconds, tokens, created, gen, cln, cur, vres, logs, rec, profile, notes, auto>>

\* ----------------------------------------------------------------- clock
Tick ==
  /\ now' = now + 1
  /\ UNCHANGED <<validitySeconds, tokens, created, gen, cln, cur, vres, logs, rec, profile, notes, swp, auto>>

\* ------------------------------------------------------------------ init
InitStore ==
  /\ now = 0
  /\ validitySeconds \in 1..MaxValidity
  /\ tokens = <<>>
  /\ created = 0
  /\ gen = [p \in GenProcs |-> GenInit]
  /\ cln = [pc |-> "idle", idsToKeep |-> {}]
  /\ cur = CurDone(0, 0)
  /\ vres = [token |-> 0, result |-> "none"]
  /\ logs = <<>>
  /\ rec = [p \in RecProcs |-> RecInit]
  /\ notes = <<>>
  /\ swp = SweepInit
  /\ auto = AutoInit

\* The users have no work days configured.
Init == InitStore /\ profile = [u \in Users |-> Unscheduled]

\* Work-day configurations of an employee: none, the first weekday only,
\* the first two weekdays; and the start times of a schedule.
WorkDayChoices == {{}, {0}, {0, 1}}
StartChoices == {NoStart} \cup (0..(DayLen - 1))

\* Employee 1 has any of the configurations.
InitLate ==
  /\ InitStore
  /\ \E w \in WorkDayChoices, st \in StartChoices :
       profile = [u \in Users |->
                    IF u = 1 THEN [isActive |-> TRUE, workDays |-> w, startTime |-> st]
                    ELSE Unscheduled]

\* Every employee is active or not, with any of the work-day configurations.
InitSweep ==
  /\ InitStore
  /\ profile \in [Users -> {[isActive |-> a, workDays |-> w, startTime |-> NoStart] :
                              a \in BOOLEAN, w \in WorkDayChoices}]

\* Token strings a caller can present: 0 is a string that was never issued.
Presented == 0..created

\* ------------------------------------------------ retention, one at a time
\* generate and cleanupExpired, each request finishing before the next
\* starts, with enough generations for the retention prune to delete.
NextRetention ==
  \/ Idle /\ created < MaxTokens /\ GenNextSequence(1)
  \/ GenCreate(1)
  \/ GenExpireOthers(1)
  \/ GenFindKeep(1)
  \/ GenDeleteMany(1)
  \/ Idle /\ CleanupMark
  \/ CleanupFindKeep
  \/ CleanupDeleteMany
  \/ Idle /\ \E v \in Presented : ValidateQRToken(v)
  \/ now < MaxTimeRetention /\ Tick

SpecRetention == Init /\ [][NextRetention]_vars

\* --------------------------------------------- token handlers, one at a time
NextTokens ==
  \/ Idle /\ created < MaxIssued /\ GenNextSequence(1)
  \/ GenCreate(1)
  \/ GenExpireOthers(1)
  \/ GenFindKeep(1)
  \/ GenDeleteMany(1)
  \/ Idle /\ CleanupMark
  \/ CleanupFindKeep
  \/ CleanupDeleteMany
  \/ Idle /\ GetCurrentFind
  \/ GetCurrentCheck
  \/ Idle /\ \E v \in Presented : ValidateQRToken(v)
  \/ now < MaxTime /\ Tick

SpecTokens == Init /\ [][NextTokens]_vars

\* ------------------------------------------------------------ getCurrent
\* getCurrentQR while a generate and a cleanup are in flight: their store
\* calls and the clock interleave with its two steps.
NextCurrent ==
  \/ created < MaxIssuedCur /\ GenNextSequence(1)
  \/ GenCreate(1)
  \/ GenExpireOthers(1)
  \/ GenFindKeep(1)
  \/ GenDeleteMany(1)
  \/ CleanupMark
  \/ CleanupFindKeep
  \/ CleanupDeleteMany
  \/ GetCurrentFind
  \/ GetCurrentCheck
  \/ now < MaxTimeCur /\ Tick

SpecCurrent == Init /\ [][NextCurrent]_vars

\* ------------------------------------- attendance, one record at a time
\* recordAttendance requests run one after the other; token issuance and
\* the clock go on between their steps.
NextAttend ==
  \/ GenIdle /\ created < MaxIssued /\ GenNextSequence(1)
  \/ GenCreate(1)
  \/ GenExpireOthers(1)
  \/ GenFindKeep(1)
  \/ GenDeleteMany(1)
  \/ RecIdle /\ Len(logs) < MaxLogs /\
       \E u \in Users, ty \in {"checkin", "checkout"}, v \in Presented :
         RecFindToken(1, u, ty, v)
  \/ RecFindToday(1)
  \/ RecFindLastCheckIn(1)
  \/ RecFindCheckOutAfter(1)
  \/ RecCreateLog(1)
  \/ RecMarkAsUsed(1)
  \/ RecLateCheck(1)
  \/ now < MaxTime /\ Tick

SpecAttend == Init /\ [][NextAttend]_vars

\* ------------------------------------------ rotation and usage counting
\* One employee's recordAttendance requests, one at a time, with token
\* issuance and the clock going on between their steps.
NextUsage ==
  \/ GenIdle /\ created < MaxIssuedUse /\ GenNextSequence(1)
  \/ GenCreate(1)
  \/ GenExpireOthers(1)
  \/ GenFindKeep(1)
  \/ GenDeleteMany(1)
  \/ RecIdle /\ Len(logs) < MaxLogsUse /\
       \E ty \in {"checkin", "checkout"}, v \in Presented : RecFindToken(1, 1, ty, v)
  \/ RecFindToday(1)
  \/ RecFindLastCheckIn(1)
  \/ RecFindCheckOutAfter(1)
  \/ RecCreateLog(1)
  \/ RecMarkAsUsed(1)
  \/ RecLateCheck(1)
  \/ now < MaxTimeUse /\ Tick

SpecUsage == Init /\ [][NextUsage]_vars

\* ------------------------------------------------------------- day rules
\* One employee's recordAttendance requests over two operative days,
\* malformed requests included; requests of every kind run one at a time
\* and the clock goes on between their steps.
NextDay ==
  \/ Idle /\ created < MaxIssuedDay /\ GenNextSequence(1)
  \/ GenCreate(1)
  \/ GenExpireOthers(1)
  \/ GenFindKeep(1)
  \/ GenDeleteMany(1)
  \/ Idle /\ Len(logs) < MaxLogsDay /\
       \E ty \in {"checkin", "checkout"}, v \in Presented : RecFindToken(1, 1, ty, v)
  \/ Idle /\ \E hasToken \in BOOLEAN, ty \in {"checkin", "missing", "lunch"} :
       RecBadRequest(1, hasToken, ty)
  \/ RecFindToday(1)
  \/ RecFindLastCheckIn(1)
  \/ RecFindCheckOutAfter(1)
  \/ RecCreateLog(1)
  \/ RecMarkAsUsed(1)
  \/ RecLateCheck(1)
  \/ now < MaxTimeDay /\ Tick

SpecDay == Init /\ [][NextDay]_vars

\* --------------------------------------------------------------- lateness
\* One employee's recordAttendance requests with the lateness rule and the
\* notification it sends, which the notification store may fail to take;
\* requests of every kind run one at a time.
NextLate ==
  \/ Idle /\ created < MaxIssuedLate /\ GenNextSequence(1)
  \/ GenCreate(1)
  \/ GenExpireOthers(1)
  \/ GenFindKeep(1)
  \/ GenDeleteMany(1)
  \/ Idle /\ Len(logs) < MaxLogsLate /\
       \E ty \in {"checkin", "checkout"}, v \in Presented : RecFindToken(1, 1, ty, v)
  \/ RecFindToday(1)
  \/ RecFindLastCheckIn(1)
  \/ RecFindCheckOutAfter(1)
  \/ RecCreateLog(1)
  \/ RecMarkAsUsed(1)
  \/ RecLateCheck(1)
  \/ \E delivered \in BOOLEAN : RecNotify(1, delivered)
  \/ now < MaxTimeLate /\ Tick

SpecLate == InitLate /\ [][NextLate]_vars

\* ---------------------------------------------------------- absence sweep
\* The sweep, run any number of times while employees check in.
NextSweep ==
  \/ GenIdle /\ created < MaxIssuedSweep /\ GenNextSequence(1)
  \/ GenCreate(1)
  \/ GenExpireOthers(1)
  \/ GenFindKeep(1)
  \/ GenDeleteMany(1)
  \/ RecIdle /\ Len(logs) < MaxLogsSweep /\
       \E u \in Users, v \in Presented : RecFindToken(1, u, "checkin", v)
  \/ RecFindToday(1)
  \/ RecCreateLog(1)
  \/ RecMarkAsUsed(1)
  \/ RecLateCheck(1)
  \/ SweepFindUsers
  \/ SweepFindCheckins
  \/ now < MaxTimeSweep /\ Tick

SpecSweep == InitSweep /\ [][NextSweep]_vars

\* ----------------------------------------------------------- token status
\* Every operation that writes a token (generate, getCurrent, cleanupExpired
\* and the markAsUsed of recordAttendance, here of a check-in) with
\* validate: the store calls of a generate, a recordAttendance and the clock
\* interleave; getCurrent and cleanupExpired run between them.
NextStatus ==
  \/ ClnIdle /\ CurIdle /\ created < MaxIssuedStatus /\ GenNextSequence(1)
  \/ GenCreate(1)
  \/ GenExpireOthers(1)
  \/ GenFindKeep(1)
  \/ GenDeleteMany(1)
  \/ Idle /\ CleanupMark
  \/ CleanupFindKeep
  \/ CleanupDeleteMany
  \/ Idle /\ GetCurrentFind
  \/ GetCurrentCheck
  \/ \E v \in Presented : ValidateQRToken(v)
  \/ ClnIdle /\ CurIdle /\ Len(logs) < MaxLogsStatus /\
       \E v \in Presented : RecFindToken(1, 1, "checkin", v)
  \/ RecFindToday(1)
  \/ RecCreateLog(1)
  \/ RecMarkAsUsed(1)
  \/ RecLateCheck(1)
  \/ now < MaxTimeStatus /\ Tick

SpecStatus == Init /\ [][NextStatus]_vars

\* --------------------------------------------------------- auto-generator
\* start() and stop() called in any order, a start() also while an earlier
\* one awaits its initial generateQR(); live timers fire at any time.
NextAuto ==
  \/ \E s \in GenProcs :
       /\ auto.nextTimer + Cardinality({q \in GenProcs : auto.pc[q] = "initial"}) <= MaxTimers
       /\ created + GenPending < MaxIssuedAuto
       /\ AutoStart(s)
  \/ \E p \in GenProcs : GenCreate(p)
  \/ \E p \in GenProcs : GenExpireOthers(p)
  \/ \E p \in GenProcs : GenFindKeep(p)
  \/ \E p \in GenProcs : GenDeleteMany(p)
  \/ \E s \in GenProcs : AutoSetInterval(s)
  \/ AutoStop
  \/ \E p \in GenProcs : created + GenPending < MaxIssuedAuto /\ AutoFire(p)
  \/ now < MaxTimeAuto /\ Tick

SpecAuto == Init /\ [][NextAuto]_vars

\* --------------------------------------------------------- log correction
\* One employee's recordAttendance requests and token issuance, one request
\* at a time, with an administrator's updateAttendanceLog requests between
\* any two of their steps.
NextEdit ==
  \/ Idle /\ created < MaxIssuedEdit /\ GenNextSequence(1)
  \/ GenCreate(1)
  \/ GenExpireOthers(1)
  \/ GenFindKeep(1)
  \/ GenDeleteMany(1)
  \/ Idle /\ Len(logs) < MaxLogsEdit /\
       \E ty \in {"checkin", "checkout"}, v \in Presented : RecFindToken(1, 1, ty, v)
  \/ RecFindToday(1)
  \/ RecFindLastCheckIn(1)
  \/ RecFindCheckOutAfter(1)
  \/ RecCreateLog(1)
  \/ RecMarkAsUsed(1)
  \/ RecLateCheck(1)
  \/ \E k \in 0..MaxLogsEdit, hasTimestamp \in BOOLEAN, timestamp \in 0..MaxTimeEdit,
        hasNotes \in BOOLEAN, text \in NoteTexts :
       UpdateAttendanceLog(k, hasTimestamp, timestamp, hasNotes, text)
  \/ now < MaxTimeEdit /\ Tick

SpecEdit == Init /\ [][NextEdit]_vars

\* -------------------------------------------------------- storage failure
\* One employee's recordAttendance requests and runs of the absence sweep,
\* one at a time, any of whose store calls may fail.
NextFail ==
  \/ Idle /\ created < MaxIssuedFail /\ GenNextSequence(1)
  \/ GenCreate(1)
  \/ GenExpireOthers(1)
  \/ GenFindKeep(1)
  \/ GenDeleteMany(1)
  \/ Idle /\ swp.pc = "idle" /\ Len(logs) < MaxLogsFail /\
       \E ty \in {"checkin", "checkout"}, v \in Presented : RecFindToken(1, 1, ty, v)
  \/ RecFindToday(1)
  \/ RecFindLastCheckIn(1)
  \/ RecFindCheckOutAfter(1)
  \/ RecCreateLog(1)
  \/ RecMarkAsUsed(1)
  \/ RecLateCheck(1)
  \/ RecStorageFails(1)
  \/ Idle /\ SweepFindUsers
  \/ SweepFindCheckins
  \/ Idle /\ SweepStorageFails
  \/ now < MaxTimeFail /\ Tick

SpecFail == Init /\ [][NextFail]_vars

\* ------------------------------------------------- concurrent attendance
\* recordAttendance requests of several employees whose store calls
\* interleave with each other and with token issuance.
RecPending == Cardinality({p \in RecProcs : rec[p].pc \in {"today", "lastin", "after", "create"}})

NextAttendConc ==
  \/ GenIdle /\ created < MaxIssuedConc /\ GenNextSequence(1)
  \/ GenCreate(1)
  \/ GenExpireOthers(1)
  \/ GenFindKeep(1)
  \/ GenDeleteMany(1)
  \/ \E p \in RecProcs : Len(logs) + RecPending < MaxLogsConc /\
       \E u \in Users, ty \in {"checkin", "checkout"}, v \in Presented :
         RecFindToken(p, u, ty, v)
  \/ \E p \in RecProcs : RecFindToday(p)
  \/ \E p \in RecProcs : RecFindLastCheckIn(p)
  \/ \E p \in RecProcs : RecFindCheckOutAfter(p)
  \/ \E p \in RecProcs : RecCreateLog(p)
  \/ \E p \in RecProcs : RecMarkAsUsed(p)
  \/ \E p \in RecProcs : RecLateCheck(p)
  \/ now < MaxTimeConc /\ Tick

SpecAttendConc == Init /\ [][NextAttendConc]_vars

\* ------------------------------------------------------ double check-in
\* Check-ins of one employee (a double tap) whose store calls interleave.
NextTap ==
  \/ GenIdle /\ created < MaxIssuedTap /\ GenNextSequence(1)
  \/ GenCreate(1)
  \/ GenExpireOthers(1)
  \/ GenFindKeep(1)
  \/ GenDeleteMany(1)
  \/ \E p \in RecProcs : Len(logs) + RecPending < MaxLogsTap /\
       \E v \in Presented : RecFindToken(p, 1, "checkin", v)
  \/ \E p \in RecProcs : RecFindToday(p)
  \/ \E p \in RecProcs : RecCreateLog(p)
  \/ \E p \in RecProcs : RecMarkAsUsed(p)
  \/ \E p \in RecProcs : RecLateCheck(p)
  \/ now < MaxTimeConc /\ Tick

SpecTap == Init /\ [][NextTap]_vars

\* ------------------------------------------------ concurrent generation
\* Two generate requests (an administrator's and the auto-generator's, or
\* two administrators') whose store calls interleave.
NextRace ==
  \/ \E p \in GenProcs : created + GenPending < MaxIssued /\ GenNextSequence(p)
  \/ \E p \in GenProcs : GenCreate(p)
  \/ \E p \in GenProcs : GenExpireOthers(p)
  \/ \E p \in GenProcs : GenFindKeep(p)
  \/ \E p \in GenProcs : GenDeleteMany(p)
  \/ now < MaxTime /\ Tick

SpecRace == Init /\ [][NextRace]_vars

\* ================================================================ claims

\* Tokens a scanner could still use: status active and validTo > now.
Live == {i \in DOMAIN tokens : tokens[i].status = "active" /\ tokens[i].validTo > now}

\* C1: with requests run one at a time, once a generate has completed the
\* live tokens are exactly the token it returned for as long as that token's
\* window lasts, and there is no live token only when the window of every
\* stored token has elapsed.
C1_OneLiveAfterGenerate ==
  (GenIdle /\ gen[1].returned # 0) =>
    LET r == gen[1].returned IN
      /\ r \in DOMAIN tokens
      /\ Live \subseteq {r}
      /\ (Live = {r} <=> tokens[r].validTo > now)
      /\ (Live = {} => \A i \in DOMAIN tokens : tokens[i].validTo <= now)

\* A second generation has rotated out a token whose window is still open.
C1_Witness ==
  /\ GenIdle
  /\ created >= 2
  /\ gen[1].returned = created
  /\ Live = {created}
  /\ \E i \in DOMAIN tokens \ {created} :
       tokens[i].validTo > now /\ tokens[i].status = "expired"

\* C2: in every reachable state, the states inside a generate and the
\* interleavings of concurrent generates included, at most one token is
\* active with validTo > now.
C2_AtMostOneLive == Cardinality(Live) <= 1

\* C3: with requests run one at a time, between requests the store holds
\* exactly the KeepLast most recently created tokens (all of them while no
\* more than KeepLast were created), whatever their status.
C3_KeepsNewest ==
  Idle => DOMAIN tokens = {i \in 1..created : i > created - KeepLast}

\* The prune has deleted the oldest token and kept the one just returned.
C3_Witness ==
  /\ Idle
  /\ created > KeepLast
  /\ gen[1].returned = created
  /\ Cardinality(DOMAIN tokens) = KeepLast
  /\ 1 \notin DOMAIN tokens
  /\ tokens[created].status = "active"
  /\ \E i \in DOMAIN tokens : tokens[i].status = "expired"

\* C4: validate(v) answers NotFound iff no token v is stored, Valid iff the
\* stored token is active and validFrom <= now < validTo, Expired otherwise.
C4_ValidateClassifies ==
  [][\A v \in Presented : ValidateQRToken(v) =>
       /\ (vres'.result = "NotFound") <=> (v \notin DOMAIN tokens)
       /\ (vres'.result = "Valid") <=>
            (v \in DOMAIN tokens /\ tokens[v].status = "active"
               /\ tokens[v].validFrom <= now /\ now < tokens[v].validTo)
       /\ (vres'.result = "Expired") <=>
            (v \in DOMAIN tokens /\ ~(tokens[v].status = "active"
               /\ tokens[v].validFrom <= now /\ now < tokens[v].validTo))]_vars

\* An active token was validated at now = validTo and answered Expired.
C4_Witness ==
  /\ vres.result = "Expired"
  /\ vres.token \in DOMAIN tokens
  /\ tokens[vres.token].status = "active"
  /\ tokens[vres.token].validTo = now

\* C5: validating the token returned by the latest generate, no generate
\* having run since, answers Valid at every clock value before its validTo
\* and Expired from validTo on; any stored token answers Expired from its
\* validTo on.
C5_RoundTrip ==
  [][\A v \in Presented : ValidateQRToken(v) /\ v \in DOMAIN tokens =>
       /\ (v = gen[1].returned /\ now < tokens[v].validTo) => vres'.result = "Valid"
       /\ now >= tokens[v].validTo => vres'.result = "Expired"]_vars

\* The returned token validated Valid one tick into a two-tick window, after
\* a cleanup and a getCurrent could have run.
C5_Witness ==
  /\ vres.result = "Valid"
  /\ vres.token = gen[1].returned
  /\ vres.token \in DOMAIN tokens
  /\ tokens[vres.token].validFrom < now
  /\ now < tokens[vres.token].validTo

\* C6: once a later generate has completed, every other stored token is
\* answered Expired by validate and rejected by recordAttendance, also
\* while its own window is still open.
C6_RotationPreempts ==
  /\ [](GenIdle /\ gen[1].returned # 0 =>
          \A a \in DOMAIN tokens \ {gen[1].returned} :
            /\ ValidateResult(tokens, a, now) = "Expired"
            /\ TokenRejection(tokens, a, now) = "QRExpired")
  /\ [][\A u \in Users, ty \in {"checkin", "checkout"}, a \in Presented :
          (RecFindToken(1, u, ty, a) /\ GenIdle /\ a \in DOMAIN tokens
             /\ a # gen[1].returned)
          => (rec'[1].pc = "idle" /\ rec'[1].status = 400
                /\ rec'[1].error = "QRExpired" /\ logs' = logs)]_vars

\* A rotated-out token was presented inside its window and rejected.
C6_Witness ==
  /\ GenIdle
  /\ gen[1].returned = 2
  /\ 1 \in DOMAIN tokens
  /\ now < tokens[1].validTo
  /\ rec[1].pc = "idle"
  /\ rec[1].error = "QRExpired"
  /\ rec[1].id = 1

\* markAsUsed calls that have completed on token t: the logs that reference
\* it, less the request whose log is created and whose markAsUsed is due.
MarksDone(t) ==
  Cardinality({i \in 1..Len(logs) : logs[i].tokenId = t})
    - Cardinality({p \in RecProcs : rec[p].pc = "mark" /\ rec[p].id = t})

\* C7: markUsed calls made one after the other each add exactly one to the
\* token's usageCount, so N calls add N, and change nothing else of the
\* token and nothing of any other token.
C7_MarkUsedCounts ==
  /\ [](\A t \in DOMAIN tokens : tokens[t].usageCount = MarksDone(t))
  /\ [][\A p \in RecProcs :
          (RecMarkAsUsed(p) /\ rec[p].id \in DOMAIN tokens)
          => tokens' = [tokens EXCEPT ![rec[p].id].usageCount = @ + 1]]_vars

\* A token marked twice, the second time after rotation had expired it.
C7_Witness ==
  \E t \in DOMAIN tokens :
    /\ tokens[t].usageCount = 2
    /\ tokens[t].status = "expired"
    /\ logs[Len(logs)].tokenId = t
    /\ logs[Len(logs)].timestamp >= tokens[t].validTo
    /\ rec[1].status = 200

\* C8: with no request in flight, every token's usageCount is the number
\* of successful recordAttendance actions that referenced it, overlapping
\* requests included. (A request whose log exists and whose token is still
\* stored has succeeded.)
C8_UsageCountsActions ==
  RecIdle =>
    \A t \in DOMAIN tokens :
      tokens[t].usageCount = Cardinality({i \in 1..Len(logs) : logs[i].tokenId = t})

\* The logs of the user of log k that were created before it.
Earlier(k) == {i \in 1..(k - 1) : logs[i].userId = logs[k].userId}

\* C10: with requests one at a time and no timestamp edits, every checkout
\* log was created with the user in OpenSession: the user had a checkin,
\* and no checkout later than the most recent one; a checkout by a user
\* with no checkin is answered NoOpenSession and creates nothing.
C10_CheckoutClosesCheckin ==
  \A k \in 1..Len(logs) : logs[k].type = "checkout" =>
    LET ins == {i \in Earlier(k) : logs[i].type = "checkin"} IN
      /\ ins # {}
      /\ ~\E j \in Earlier(k) :
            /\ logs[j].type = "checkout"
            /\ logs[j].timestamp > SetMax({logs[i].timestamp : i \in ins})

\* The operative day a log's timestamp lies in.
LogDay(i) == DateString(logs[i].timestamp)

C13_CrossMidnightCheckout ==
  /\ [][\A p \in RecProcs :
          (RecFindCheckOutAfter(p)
             /\ CheckIns(rec[p].user) # {}
             /\ DateString(LastCheckInTime(rec[p].user)) < DateString(now)
             /\ ~HasCheckOutAfter(rec[p].user, LastCheckInTime(rec[p].user)))
          => rec'[p].pc = "create"]_vars
  /\ [][\A p \in RecProcs :
          (RecCreateLog(p) /\ rec[p].type = "checkout")
          => /\ logs' = Append(logs, NewLog(rec[p].user, "checkout", now, rec[p].id))
             /\ (DateString(rec[p].lastCheckIn) < DateString(now)
                  => \E j \in 1..Len(logs') :
                       /\ logs'[j].userId = rec[p].user
                       /\ logs'[j].type = "checkout"
                       /\ logs'[j].timestamp > rec[p].lastCheckIn)]_vars

\* Yesterday's checkin was closed by a checkout today, with no checkin today.
C13_Witness ==
  /\ rec[1].pc = "idle"
  /\ rec[1].status = 200
  /\ Len(logs) = 2
  /\ logs[1].type = "checkin" /\ logs[2].type = "checkout"
  /\ LogDay(1) < LogDay(2)
  /\ LogDay(2) = DateString(now)

\* C14: a checkout by a user whose most recent checkin is later than every
\* checkout of that user (an open session) passes the rules, also when a
\* checkout earlier than that checkin was logged today.
C14_OpenSessionChecksOut ==
  [][\A p \in RecProcs :
       (RecFindCheckOutAfter(p)
          /\ CheckIns(rec[p].user) # {}
          /\ \A j \in LogsOf(rec[p].user) :
               logs[j].type = "checkout"
               => logs[j].timestamp < LastCheckInTime(rec[p].user))
       => rec'[p].pc = "create"]_vars

\* The responses that reject a request for a business reason.
Rejections ==
  {"FieldsRequired", "BadType", "InvalidQR", "QRExpired",
   "AlreadyCheckedIn", "AlreadyCheckedOut", "NoOpenSession"}

\* C15: a recordAttendance step that answers a business rejection is taken
\* before the request has created its log and leaves the logs, every token
\* and the notifications as they are; a token that validate would not
\* answer Valid is rejected by the first store call, whatever the user's
\* logs, and the attendance rules reject only requests whose token passed.
C15_RejectionsChangeNothing ==
  /\ [][\A p \in RecProcs :
          (rec'[p] # rec[p] /\ rec'[p].pc = "idle" /\ rec'[p].error \in Rejections)
          => /\ rec'[p].status \in {400, 404}
             /\ rec[p].pc \in {"idle", "today", "lastin", "after"}
             /\ logs' = logs /\ tokens' = tokens /\ notes' = notes
             /\ (rec'[p].error \in {"AlreadyCheckedIn", "AlreadyCheckedOut", "NoOpenSession"}
                  => rec[p].pc # "idle" /\ rec[p].doc.status = "active")]_vars
  /\ [][\A p \in RecProcs, u \in Users, ty \in {"checkin", "checkout"}, v \in Presented :
          (RecFindToken(p, u, ty, v) /\ ValidateResult(tokens, v, now) # "Valid")
          => (rec'[p].pc = "idle" /\ rec'[p].error \in {"InvalidQR", "QRExpired"})]_vars

\* An expired token was rejected as such on a day on which the user had
\* checked in and out, so that either attendance rule would have rejected.
C15_Witness ==
  /\ rec[1].pc = "idle"
  /\ rec[1].error = "QRExpired"
  /\ rec[1].id \in DOMAIN tokens
  /\ \E i, j \in LogsOf(1) :
       /\ logs[i].type = "checkin" /\ LogDay(i) = DateString(now)
       /\ logs[j].type = "checkout" /\ LogDay(j) = DateString(now)
  /\ \A t \in DOMAIN tokens :
       tokens[t].usageCount = Cardinality({i \in 1..Len(logs) : logs[i].tokenId = t})

\* C16: a token string that is not stored and a stored token that is
\* expired or rotated out get the same answer from recordAttendance's token
\* check and the same answer from validate.
C16_UnknownAndExpiredAlike ==
  \A a, b \in Presented :
    (TokenRejection(tokens, a, now) # "none" /\ TokenRejection(tokens, b, now) # "none")
    => /\ TokenRejection(tokens, a, now) = TokenRejection(tokens, b, now)
       /\ ValidateResult(tokens, a, now) = ValidateResult(tokens, b, now)

\* C17: a check-in passes the already-checked-in test whenever the store
\* holds no checkin log of the user for today, whatever other requests are
\* in flight, and the insert that follows always stores the log, also when
\* the store by then holds a checkin log of that user for today; so two
\* overlapping check-ins of one user can both succeed.
C17_CheckInRace ==
  /\ [][\A p \in RecProcs :
          (RecFindToday(p) /\ rec[p].type = "checkin"
             /\ ~\E i \in CheckIns(rec[p].user) : LogDay(i) = DateString(now))
          => rec'[p].pc = "create"]_vars
  /\ [][\A p \in RecProcs :
          (rec[p].pc = "create" /\ rec'[p] # rec[p])
          => /\ rec'[p].pc = "mark"
             /\ Len(logs') = Len(logs) + 1
             /\ logs'[Len(logs')].userId = rec[p].user
             /\ logs'[Len(logs')].type = rec[p].type
             /\ logs'[Len(logs')].timestamp = now]_vars

\* Two check-ins of one user were both answered 200 and left two checkin
\* logs inside one operative day.
C17_Witness ==
  /\ rec[1].pc = "idle" /\ rec[1].status = 200
  /\ rec[2].pc = "idle" /\ rec[2].status = 200
  /\ Len(logs) = 2
  /\ logs[1].type = "checkin" /\ logs[2].type = "checkin"
  /\ logs[1].userId = logs[2].userId
  /\ LogDay(1) = LogDay(2)

\* The milliseconds between the expected start of its day and a check-in.
LateMs(u, checkinTime) ==
  (checkinTime - (StartOfToday(checkinTime) + profile[u].startTime)) * TickMs

C19_NotifyFailureSwallowed ==
  /\ [][\A p \in RecProcs :
          (rec[p].pc = "notify" /\ rec'[p] # rec[p])
          => /\ rec'[p].pc = "idle" /\ rec'[p].status = 200
             /\ logs' = logs
             /\ \E i \in CheckIns(rec[p].user) : logs[i].timestamp = rec[p].timestamp]_vars
  /\ [](\A p \in RecProcs : rec[p].notified = "failed" => rec[p].status = 200)

\* A late check-in succeeded although its notification was not stored.
C19_Witness ==
  /\ rec[1].pc = "idle"
  /\ rec[1].status = 200
  /\ rec[1].notified = "failed"
  /\ notes = <<>>
  /\ Len(logs) = 1 /\ logs[1].type = "checkin"

\* C20: a run of the absence sweep stores exactly one absent notification
\* for every active user whose workDays include the current weekday and who
\* has no checkin log inside today, and none for any other user.
C20_SweepNotifiesAbsent ==
  [][SweepFindCheckins =>
       \A u \in Users :
         Cardinality({k \in (Len(notes) + 1)..Len(notes') :
                        notes'[k].type = "user_absent" /\ notes'[k].userId = u})
           = IF /\ profile[u].isActive
                /\ DayName(now) \in profile[u].workDays
                /\ ~\E i \in CheckIns(u) : LogDay(i) = DateString(now)
             THEN 1 ELSE 0]_vars

\* C21: getCurrent selects the most recently created token among those
\* stored with status active and validTo > now, and answers NotFound when
\* there is none; it returns the selected token only if that token, as
\* read, is active with validFrom <= now < validTo at the check; otherwise
\* it sets that token to expired and answers NotFound; in every other case
\* it changes no token.
C21_GetCurrent ==
  /\ [][GetCurrentFind =>
          LET c == {i \in DOMAIN tokens :
                      tokens[i].status = "active" /\ tokens[i].validTo > now}
          IN /\ tokens' = tokens
             /\ (c = {} => cur'.pc = "idle" /\ cur'.status = 404)
             /\ (c # {} => /\ cur'.pc = "check"
                            /\ cur'.id \in c
                            /\ \A i \in c : i <= cur'.id
                            /\ cur'.doc = tokens[cur'.id])]_vars
  /\ [][GetCurrentCheck =>
          LET ok == /\ cur.doc.status = "active"
                    /\ cur.doc.validFrom <= now
                    /\ now < cur.doc.validTo
          IN /\ (cur'.status = 200) <=> ok
             /\ (ok => cur'.token = cur.id /\ tokens' = tokens)
             /\ (~ok /\ cur.id \in DOMAIN tokens
                  => /\ cur'.status = 404
                     /\ tokens' = [tokens EXCEPT ![cur.id].status = "expired"])
             /\ (cur.id \notin DOMAIN tokens => tokens' = tokens)]_vars

\* getCurrent answered NotFound and left the newest token, which no
\* generate or cleanup expires at validTo = now, expired.
C21_Witness ==
  /\ cur.pc = "idle"
  /\ cur.status = 404
  /\ created \in DOMAIN tokens
  /\ tokens[created].status = "expired"
  /\ tokens[created].validTo = now
  /\ gen[1].pc = "idle"

\* C22: validate changes nothing in the store, whatever it answers: no
\* token's status or usageCount, no token added or removed, no attendance
\* log and no notification; so a validate of the same string on the state
\* it leaves answers the same.
C22_ValidateReadOnly ==
  [][\A v \in Presented : ValidateQRToken(v) =>
       /\ tokens' = tokens
       /\ created' = created
       /\ logs' = logs
       /\ notes' = notes
       /\ ValidateResult(tokens', v, now') = vres'.result]_vars

\* validate answered Expired for a token past its validTo, and the token is
\* still stored as active.
C22_Witness ==
  /\ vres.result = "Expired"
  /\ vres.token \in DOMAIN tokens
  /\ tokens[vres.token].status = "active"
  /\ tokens[vres.token].validTo < now

\* Tokens stored with status active, whatever their window.
Active == {i \in DOMAIN tokens : tokens[i].status = "active"}

\* C25: once every one of several overlapping generates has completed,
\* exactly one token has status active and it is the most recently created
\* one; the store is never left with no active token.
C25_OneActiveAfterOverlap ==
  (GenIdle /\ created > 0) => Active = {created}

\* C26: whenever no generate stands between its create and its
\* expire-others, at most one token has status active; two are active
\* together only while some generate has created its token and not yet
\* expired the others.
C26_TwoActiveOnlyInFlight ==
  (\A p \in GenProcs : gen[p].pc # "expire") => Cardinality(Active) <= 1

\* Two generates that overlapped (both read the same sequence number) have
\* returned different tokens, and one token is active.
C26_Witness ==
  /\ GenIdle
  /\ gen[1].returned # 0
  /\ gen[2].returned # 0
  /\ gen[1].returned # gen[2].returned
  /\ gen[1].sequenceNumber = gen[2].sequenceNumber
  /\ Cardinality(Active) = 1

\* C27: the token a generate returns is in the store when it returns,
\* whatever the prunes of concurrent generates did.
C27_ReturnedTokenStored ==
  [][\A p \in GenProcs : GenDeleteMany(p) =>
       gen'[p].returned \in DOMAIN tokens']_vars

\* C23: a store call that fails during a core operation is answered with a
\* status of 500 or more, never with a success.
C23_FailureSurfaced ==
  /\ swp.result = "StorageError" => swp.status >= 500
  /\ \A p \in RecProcs : rec[p].error = "StorageError" => rec[p].status >= 500

\* C29: a recordAttendance request that is answered with an error has left
\* no attendance log of its own in the store.
C29_AllOrNothing ==
  [][\A p \in RecProcs :
       (rec[p].pc # "idle" /\ rec'[p].pc = "idle" /\ rec'[p].status >= 400) =>
         ~ /\ rec[p].pc \in {"mark", "late", "notify"}
           /\ \E k \in 1..Len(logs') :
                logs'[k] = NewLog(rec[p].user, rec[p].type, rec[p].timestamp, rec[p].id)]_vars

\* C24: no step removes an attendance log; recordAttendance appends one log
\* and touches no other; a step that changes an existing log is an
\* updateAttendanceLog of that log, which leaves its userId, type and
\* tokenId as they were and its method manual, so that only timestamp and
\* notes can differ otherwise.
C24_LogsImmutable ==
  [][/\ Len(logs') >= Len(logs)
     /\ \A k \in 1..Len(logs) :
          /\ logs'[k].userId = logs[k].userId
          /\ logs'[k].type = logs[k].type
          /\ logs'[k].tokenId = logs[k].tokenId
          /\ logs'[k] # logs[k] =>
               /\ logs'[k].method = "manual"
               /\ Len(logs') = Len(logs)
               /\ \A j \in 1..Len(logs) : j # k => logs'[j] = logs[j]
               /\ \E hasTimestamp \in BOOLEAN, timestamp \in 0..MaxTimeEdit,
                     hasNotes \in BOOLEAN, text \in NoteTexts :
                    UpdateAttendanceLog(k, hasTimestamp, timestamp, hasNotes, text)
     /\ \A p \in RecProcs : RecCreateLog(p) =>
          /\ Len(logs') = Len(logs) + 1
          /\ SubSeq(logs', 1, Len(logs)) = logs]_vars

\* A checkin log recorded with a token has been corrected: its timestamp
\* moved and a note written, its token reference in place; a checkout was
\* recorded after it.
C24_Witness ==
  /\ Len(logs) = 2
  /\ logs[1].type = "checkin"
  /\ logs[1].method = "manual"
  /\ logs[1].notes = "corrected"
  /\ logs[1].tokenId # 0
  /\ logs[1].timestamp > logs[2].timestamp
  /\ logs[2].method = "qr"

\* C28: a token is created active; a step changes a stored token's status
\* only from active to expired; no token has status used; a deleted token
\* does not come back; so a token string that validate answers Expired for
\* is not answered Valid after any step.
C28_StatusMonotonic ==
  /\ [](\A i \in DOMAIN tokens : tokens[i].status \in {"active", "expired"})
  /\ [][\A i \in DOMAIN tokens' :
          IF i \in DOMAIN tokens
          THEN \/ tokens'[i].status = tokens[i].status
               \/ tokens[i].status = "active" /\ tokens'[i].status = "expired"
          ELSE i = created' /\ i > created /\ tokens'[i].status = "active"]_vars
  /\ [][\A v \in Presented :
          ValidateResult(tokens, v, now) = "Expired" =>
            ValidateResult(tokens', v, now') # "Valid"]_vars

\* A token that rotation expired inside its window was answered Expired by
\* validate, and the markAsUsed of a request that had loaded it as active
\* has been saved: it is still expired.
C28_Witness ==
  /\ vres.result = "Expired"
  /\ vres.token \in DOMAIN tokens
  /\ tokens[vres.token].status = "expired"
  /\ tokens[vres.token].usageCount = 1
  /\ now < tokens[vres.token].validTo
  /\ rec[1].status = 200

\* C30: the auto-generator has at most one interval timer that is not
\* cleared, and a generateQR() is begun by a timer only while the generator
\* is running: none after stop() until the next start().
C30_OneTimer ==
  /\ [](Cardinality(auto.timers) <= 1)
  /\ [][\A p \in GenProcs : AutoFire(p) => auto.isRunning]_vars

\* C9: sequence numbers strictly increase in creation order, so no two
\* tokens carry the same sequenceNumber, concurrent generates included.
C9_SequenceIncreases ==
  \A i, j \in DOMAIN tokens : i < j => tokens[i].sequenceNumber < tokens[j].sequenceNumber

====
